---------------------------- MODULE Spec2Model ----------------------------
(***************************************************************************)
(* Task manager and page table of the os4 teaching kernel.                 *)
(*                                                                         *)
(*   os4/src/task/mod.rs      TaskManager: round-robin scheduling, the     *)
(*                            per-task accounting, mmap and munmap         *)
(*   os4/src/mm/page_table.rs PageTableEntry, PageTable (Sv39, 3 levels)   *)
(*   os4-ref/src/sync/up.rs   UPSafeCell                                   *)
(*                                                                         *)
(* The frame allocator, the address arithmetic (floor, ceil, indexes), the *)
(* memory set (insert_framed_area, munmap), the task constructor and the   *)
(* timer are not among the source files; they are modelled from the        *)
(* design document and marked so where they are defined.                   *)
(***************************************************************************)
EXTENDS Integers, Sequences, FiniteSets, TLC

(***************************************************************************)
(* Bounds of the model.                                                    *)
(***************************************************************************)
\* largest number of applications the loader supplies
MaxApp == 3
\* largest number of applications in the specifications that map memory
MaxMemApp == 2
\* frames left in the pool of the allocator once the applications are loaded
FreeFrames == 2
\* the permission values (port) tried by mmap are 0 .. MaxPort
MaxPort == 9
\* the clock stops advancing at MaxTime microseconds
MaxTime == 2100
\* update_syscall_times is called at most MaxCalls times in all
MaxCalls == 3
\* syscall identifiers tried are 0..MaxSyscallId
MaxSyscallId == 1
\* the scheduling trace records at most MaxTrace operations
MaxTrace == 7
\* the largest frame number given to PageTable::map
MaxPpn == 1048575

(***************************************************************************)
(* Program constants.                                                      *)
(***************************************************************************)
\* config::PAGE_SIZE
PAGE_SIZE == 4096
\* PTEFlags, page_table.rs:13-17
PTE_V == 1
PTE_R == 2
PTE_W == 4
PTE_X == 8
PTE_U == 16

\* Option<T>: None is the empty sequence, Some(x) the sequence of x alone
None == << >>
Some(x) == << x >>
unwrap(o) == o[1]

\* the kernel has not panicked
NoPanic == "none"

VARIABLES
    num_app,        \* TaskManager.num_app
    task_status,    \* tasks[i].task_status
    current_task,   \* TaskManagerInner.current_task
    start_time,     \* tasks[i].start_time
    syscall_times,  \* tasks[i].syscall_times
    page_table,     \* tasks[i].memory_set.page_table: [root_ppn, frames]
    data_frames,    \* tasks[i].memory_set data frames of the areas: vpn -> ppn
    mem,            \* physical memory holding page tables: <<ppn, idx>> -> bits
    allocator,      \* FRAME_ALLOCATOR: [current, end, recycled]
    time,           \* the clock, in microseconds
    pc,             \* "boot" before run_first_task, "user" in a task, "panic"
    panic_msg,      \* the message of the panic that halted the kernel
    last,           \* the last operation: its arguments, what it returned, and
                    \* what held of its arguments when it was called
    trace,          \* the scheduling operations so far, with the task dispatched
    calls,          \* calls[t][id]: update_syscall_times(id) calls made while t was current
    first_dispatch, \* first_dispatch[t]: clock reading at the first dispatch of t, or None
    borrowed        \* TASK_MANAGER.inner: an exclusive access is outstanding

vars == << num_app, task_status, current_task, start_time, syscall_times,
           page_table, data_frames, mem, allocator, time, pc, panic_msg,
           last, trace, calls, first_dispatch, borrowed >>

kernel_vars == << num_app, task_status, current_task, start_time, syscall_times,
                  page_table, data_frames, mem, allocator, pc, panic_msg >>

(***************************************************************************)
(* Bit operations on machine words.                                        *)
(***************************************************************************)
\* 1 << n, for n < 31
Pow2Table ==
    << 1, 2, 4, 8, 16, 32, 64, 128, 256, 512, 1024, 2048, 4096, 8192, 16384,
       32768, 65536, 131072, 262144, 524288, 1048576, 2097152, 4194304,
       8388608, 16777216, 33554432, 67108864, 134217728, 268435456,
       536870912, 1073741824 >>
Pow2(n) == Pow2Table[n + 1]

Shr(x, n) == x \div Pow2(n)
Shl(x, n) == x * Pow2(n)
\* x & ((1 << n) - 1); the words of the model stay below 2^31, so a mask of
\* 31 bits or more keeps all of x
LowBits(x, n) == IF n >= 31 THEN x ELSE x % Pow2(n)
Bit(x, n) == Shr(x, n) % 2

\* x & y
RECURSIVE BitAnd(_, _)
BitAnd(x, y) ==
    IF x = 0 \/ y = 0 THEN 0
    ELSE (x % 2) * (y % 2) + 2 * BitAnd(x \div 2, y \div 2)

\* x | y
RECURSIVE BitOr(_, _)
BitOr(x, y) ==
    IF x = 0 THEN y
    ELSE IF y = 0 THEN x
    ELSE (IF x % 2 = 1 \/ y % 2 = 1 THEN 1 ELSE 0) + 2 * BitOr(x \div 2, y \div 2)

(***************************************************************************)
(* PageTableEntry, page_table.rs:34-66.  An entry is its bits: usize.      *)
(***************************************************************************)
\* PageTableEntry::new: ppn.0 << 10 | flags.bits as usize
PageTableEntry_new(p, f) == BitOr(Shl(p, 10), LowBits(f, 8))

\* PageTableEntry::empty
PageTableEntry_empty == 0

\* PageTableEntry::ppn: bits >> 10 & ((1 << 44) - 1)
ppn_of(bits) == LowBits(Shr(bits, 10), 44)

\* PageTableEntry::flags: PTEFlags::from_bits(bits as u8)
flags_of(bits) == LowBits(bits, 8)

\* PageTableEntry::is_valid: flags & V != empty
is_valid(bits) == BitAnd(flags_of(bits), PTE_V) # 0

\* PageTableEntry::readable, writable, executable
readable(bits) == BitAnd(flags_of(bits), PTE_R) # 0
writable(bits) == BitAnd(flags_of(bits), PTE_W) # 0
executable(bits) == BitAnd(flags_of(bits), PTE_X) # 0

(***************************************************************************)
(* Physical memory holding page tables.  A frame is zeroed when it is      *)
(* allocated, so mem keeps only the entries that are not zero.             *)
(***************************************************************************)
\* ppn.get_pte_array()[idx], read
ReadPte(m, addr) == IF addr \in DOMAIN m THEN m[addr] ELSE 0

\* ppn.get_pte_array()[idx], written
WritePte(m, addr, bits) ==
    IF bits = 0
    THEN [a \in DOMAIN m \ {addr} |-> m[a]]
    ELSE [a \in DOMAIN m \cup {addr} |-> IF a = addr THEN bits ELSE m[a]]

(***************************************************************************)
(* Address arithmetic (mm/address.rs).                                     *)
(***************************************************************************)
\* VirtAddr::floor
floor(va) == va \div PAGE_SIZE

\* VirtAddr::ceil
ceil(va) == (va + PAGE_SIZE - 1) \div PAGE_SIZE

\* VirtPageNum::indexes: three 9-bit fields, most significant first
indexes(vpn) == << LowBits(Shr(vpn, 18), 9), LowBits(Shr(vpn, 9), 9), LowBits(vpn, 9) >>

\* VPNRange::new(l, r): the pages l, l+1, .., r-1
VPNRange(l, r) == l .. (r - 1)

(***************************************************************************)
(* Frame allocator (mm/frame_allocator.rs): a stack allocator.  A value w  *)
(* is the part of the machine an address-space operation works on:         *)
(*   w.mem, w.alloc, w.pt (the page table), w.df (the data frames),        *)
(*   w.panic (NoPanic or the message of the panic that stopped it).        *)
(***************************************************************************)
\* FrameTracker::new(p): the frame p zeroed
zeroed(m, p) == [x \in {y \in DOMAIN m : y[1] # p} |-> m[x]]

\* frame_alloc().unwrap(): [w, ppn]
frame_alloc(w) ==
    IF w.panic # NoPanic THEN [w |-> w, ppn |-> 0]
    ELSE IF Len(w.alloc.recycled) > 0
    THEN [w |-> [w EXCEPT !.alloc.recycled = SubSeq(@, 1, Len(@) - 1),
                          !.mem = zeroed(@, w.alloc.recycled[Len(w.alloc.recycled)])],
          ppn |-> w.alloc.recycled[Len(w.alloc.recycled)]]
    ELSE IF w.alloc.current = w.alloc.end
    THEN [w |-> [w EXCEPT !.panic = "frame_alloc: unwrap on None"], ppn |-> 0]
    ELSE [w |-> [w EXCEPT !.alloc.current = @ + 1], ppn |-> w.alloc.current]

\* frame_dealloc, when a FrameTracker is dropped
frame_dealloc(w, p) == [w EXCEPT !.alloc.recycled = Append(@, p)]

(***************************************************************************)
(* PageTable, page_table.rs:75-144.                                        *)
(***************************************************************************)
\* page_table.rs:101-105: the frame just allocated, fa = [w, ppn], linked
\* into the entry at addr; the walk goes on in it
link_table(fa, addr) ==
    IF fa.w.panic # NoPanic THEN [w |-> fa.w, ppn |-> 0]
    ELSE [w |-> [fa.w EXCEPT !.mem = WritePte(@, addr, PageTableEntry_new(fa.ppn, PTE_V)),
                             !.pt.frames = Append(@, fa.ppn)],
          ppn |-> ppn_of(PageTableEntry_new(fa.ppn, PTE_V))]

\* one round (i < 2) of the loop of find_pte_create, page_table.rs:94-106:
\* st = [w, ppn], ppn the table reached so far
find_pte_create_level(st, idx) ==
    IF st.w.panic # NoPanic THEN st
    ELSE IF is_valid(ReadPte(st.w.mem, << st.ppn, idx >>))
    THEN [w |-> st.w, ppn |-> ppn_of(ReadPte(st.w.mem, << st.ppn, idx >>))]
    ELSE link_table(frame_alloc(st.w), << st.ppn, idx >>)

\* the last round (i == 2), page_table.rs:96-99: the place of the leaf entry
find_pte_create_leaf(st, idx) == [w |-> st.w, addr |-> << st.ppn, idx >>]

\* find_pte_create: [w, addr], addr the place of the leaf entry
find_pte_create(w, vpn) ==
    find_pte_create_leaf(
        find_pte_create_level(
            find_pte_create_level([w |-> w, ppn |-> w.pt.root_ppn], indexes(vpn)[1]),
            indexes(vpn)[2]),
        indexes(vpn)[3])

\* find_pte from the second round on: pte0 is the entry read in the root
find_pte_below(m, pte0, idxs) ==
    IF ~is_valid(pte0) THEN None
    ELSE IF ~is_valid(ReadPte(m, << ppn_of(pte0), idxs[2] >>)) THEN None
    ELSE Some(<< ppn_of(ReadPte(m, << ppn_of(pte0), idxs[2] >>)), idxs[3] >>)

\* find_pte: Some(place of the leaf entry), or None at an intermediate entry
\* that is not valid
find_pte(m, root_ppn, vpn) ==
    find_pte_below(m, ReadPte(m, << root_ppn, indexes(vpn)[1] >>), indexes(vpn))

\* a map that stores the flags as given, without the Valid flag
map_entry_as_given(r, p, flags) ==
    IF r.w.panic # NoPanic THEN r.w
    ELSE IF is_valid(ReadPte(r.w.mem, r.addr))
    THEN [r.w EXCEPT !.panic = "vpn is mapped before mapping"]
    ELSE [r.w EXCEPT !.mem = WritePte(@, r.addr, PageTableEntry_new(p, flags))]

\* page_table.rs:129-130: r = [w, addr] is what find_pte_create gave
map_entry(r, p, flags) ==
    IF r.w.panic # NoPanic THEN r.w
    ELSE IF is_valid(ReadPte(r.w.mem, r.addr))
    THEN [r.w EXCEPT !.panic = "vpn is mapped before mapping"]
    ELSE [r.w EXCEPT !.mem = WritePte(@, r.addr, PageTableEntry_new(p, BitOr(flags, PTE_V)))]

\* PageTable::map
map(w, vpn, p, flags) == map_entry(find_pte_create(w, vpn), p, flags)

\* an unmap that checks the entry and leaves it as it is
unmap_entry_keep(r) ==
    IF r.w.panic # NoPanic THEN r.w
    ELSE IF ~is_valid(ReadPte(r.w.mem, r.addr))
    THEN [r.w EXCEPT !.panic = "vpn is invalid before unmapping"]
    ELSE r.w

\* page_table.rs:135-136: r = [w, addr] is what find_pte_create gave
unmap_entry(r) ==
    IF r.w.panic # NoPanic THEN r.w
    ELSE IF ~is_valid(ReadPte(r.w.mem, r.addr))
    THEN [r.w EXCEPT !.panic = "vpn is invalid before unmapping"]
    ELSE [r.w EXCEPT !.mem = WritePte(@, r.addr, PageTableEntry_empty)]

\* PageTable::unmap
unmap(w, vpn) == unmap_entry(find_pte_create(w, vpn))

\* Option::copied: the entry at the place r
copied(m, r) == IF r = None THEN None ELSE Some(ReadPte(m, unwrap(r)))

\* PageTable::translate: a copy of the entry, or None
translate(m, root_ppn, vpn) == copied(m, find_pte(m, root_ppn, vpn))

(***************************************************************************)
(* MemorySet (mm/memory_set.rs).                                           *)
(***************************************************************************)
\* MapArea::map_one once its frame is allocated: fa = [w, ppn]
map_frame(fa, vpn, perm) ==
    IF fa.w.panic # NoPanic THEN fa.w
    ELSE map([fa.w EXCEPT !.df = [v \in DOMAIN @ \cup {vpn} |->
                                     IF v = vpn THEN fa.ppn ELSE @[v]]],
             vpn, fa.ppn, LowBits(perm, 8))

\* MapArea::map_one: a fresh frame for vpn, mapped with the permission of the area
map_one(w, vpn, perm) == map_frame(frame_alloc(w), vpn, perm)

\* MapArea::map over the pages l .. r-1, in ascending order
RECURSIVE map_pages(_, _, _, _)
map_pages(w, l, r, perm) ==
    IF l >= r \/ w.panic # NoPanic THEN w
    ELSE map_pages(map_one(w, l, perm), l + 1, r, perm)

\* MemorySet::insert_framed_area(start_va, end_va, permission)
insert_framed_area(w, start_va, end_va, perm) ==
    map_pages(w, floor(start_va), ceil(end_va), perm)

\* the frame of page vpn released, after the page was unmapped
release_frame(w, vpn) ==
    IF w.panic # NoPanic THEN w
    ELSE IF vpn \in DOMAIN w.df
    THEN frame_dealloc([w EXCEPT !.df = [v \in DOMAIN @ \ {vpn} |-> @[v]]], w.df[vpn])
    ELSE w

\* MemorySet::munmap(vpn): the mapping of the page removed, its frame released
memory_set_munmap(w, vpn) == release_frame(unmap(w, vpn), vpn)

\* MemorySet::translate
memory_set_translate(w, vpn) == translate(w.mem, w.pt.root_ppn, vpn)

\* Some(pte) with pte.is_valid(), as mod.rs:194-195 and 248-249 test it
is_some_valid(pte) == IF pte = None THEN FALSE ELSE is_valid(unwrap(pte))

(***************************************************************************)
(* Construction of the tasks (TASK_MANAGER, mod.rs:48-68, and              *)
(* TaskControlBlock::new): every task starts Ready, never dispatched, with *)
(* no syscall counted and an address space that holds its image.  The      *)
(* image is one page at ImageVA, readable, executable and user-accessible. *)
(***************************************************************************)
ImageVA == PAGE_SIZE

Tasks == 0 .. (num_app - 1)
SyscallIds == 0 .. MaxSyscallId

EmptyFn == [x \in {} |-> 0]

\* PageTable::new once its root frame is allocated: fa = [w, ppn]
new_page_table(fa) == [fa.w EXCEPT !.pt = [root_ppn |-> fa.ppn, frames |-> << fa.ppn >>]]

\* MemorySet::from_elf: the address space of a task, built in the machine
\* [mem, alloc]
new_address_space(b) ==
    insert_framed_area(
        new_page_table(frame_alloc([mem |-> b.mem, alloc |-> b.alloc,
                                    pt |-> [root_ppn |-> 0, frames |-> << >>],
                                    df |-> EmptyFn, panic |-> NoPanic])),
        ImageVA, ImageVA + PAGE_SIZE, PTE_R + PTE_X + PTE_U)

\* tasks.push(TaskControlBlock::new(..)): the address space w joins those in b
push_task(b, w) ==
    [mem |-> w.mem, alloc |-> w.alloc,
     pts |-> Append(b.pts, w.pt), dfs |-> Append(b.dfs, w.df)]

\* the machine after tasks 0 .. n-1 are built from a pool of frames 0 .. e-1:
\* [mem, alloc, pts, dfs]
RECURSIVE build_tasks(_, _)
build_tasks(n, e) ==
    IF n = 0
    THEN [mem |-> EmptyFn,
          alloc |-> [current |-> 0, end |-> e, recycled |-> << >>],
          pts |-> << >>, dfs |-> << >>]
    ELSE push_task(build_tasks(n - 1, e), new_address_space(build_tasks(n - 1, e)))

\* what held of the arguments of a call when it was made
NoPre == [aligned |-> FALSE, port_ok |-> FALSE, some_mapped |-> FALSE, all_mapped |-> FALSE]

NoOp == [op |-> "none", args |-> << >>, ret |-> 0, access |-> FALSE, pre |-> NoPre,
         prev |-> None, next |-> None, next_status |-> "none"]

\* the state after construction of n tasks, b the machine built for them
InitWith(n, b) ==
    /\ num_app = n
    /\ task_status = [t \in 0 .. (n - 1) |-> "Ready"]
    /\ current_task = 0
    /\ start_time = [t \in 0 .. (n - 1) |-> 0]
    /\ syscall_times = [t \in 0 .. (n - 1) |-> [id \in SyscallIds |-> 0]]
    /\ page_table = [t \in 0 .. (n - 1) |-> b.pts[t + 1]]
    /\ data_frames = [t \in 0 .. (n - 1) |-> b.dfs[t + 1]]
    /\ mem = b.mem
    /\ allocator = b.alloc
    /\ time = 0
    /\ pc = "boot"
    /\ panic_msg = NoPanic
    /\ last = NoOp
    /\ trace = << >>
    /\ calls = [t \in 0 .. (n - 1) |-> [id \in SyscallIds |-> 0]]
    /\ first_dispatch = [t \in 0 .. (n - 1) |-> None]
    /\ borrowed = FALSE

\* a task takes four frames: its root table, the two tables on the way to its
\* image page, and the frame of the image page
InitFor(n) == InitWith(n, build_tasks(n, 4 * n + FreeFrames))

Init == \E n \in 1 .. MaxApp : InitFor(n)

InitMem == \E n \in 1 .. MaxMemApp : InitFor(n)

(***************************************************************************)
(* TaskManager: scheduling, mod.rs:74-155 and 261-292.                     *)
(***************************************************************************)
\* timer::get_time_us
get_time_us == time

\* mark_current_suspended: the statuses after it
mark_current_suspended == [task_status EXCEPT ![current_task] = "Ready"]

\* an exit that leaves the task Ready
mark_current_exited_ready == [task_status EXCEPT ![current_task] = "Ready"]

\* mark_current_exited: the statuses after it
mark_current_exited == [task_status EXCEPT ![current_task] = "Exited"]

\* a scan that takes an Exited task as well as a Ready one
RECURSIVE find_ready_or_exited(_, _, _, _)
find_ready_or_exited(status, id, end, n) ==
    IF id >= end THEN None
    ELSE IF status[id % n] # "Running" THEN Some(id % n)
    ELSE find_ready_or_exited(status, id + 1, end, n)

\* (current + 1 .. current + num_app + 1).map(|id| id % num_app)
\*     .find(|id| tasks[*id].task_status == Ready), from id on
RECURSIVE find_ready(_, _, _, _)
find_ready(status, id, end, n) ==
    IF id >= end THEN None
    ELSE IF status[id % n] = "Ready" THEN Some(id % n)
    ELSE find_ready(status, id + 1, end, n)

\* a choice of the next task in ring order whatever its status
find_next_task_any(status) == Some((current_task + 1) % num_app)

\* a scan that starts at the current task itself
find_next_task_self(status) ==
    find_ready(status, current_task, current_task + num_app, num_app)

\* a scan that stops before it comes back to the current task
find_next_task_others(status) ==
    find_ready(status, current_task + 1, current_task + num_app, num_app)

\* a choice of the Ready task with the lowest index
find_next_task_lowest(status) == find_ready(status, 0, num_app, num_app)

\* find_next_task, with the task statuses it reads
find_next_task(status) ==
    find_ready(status, current_task + 1, current_task + num_app + 1, num_app)

\* run_first_task
run_first_task ==
    /\ pc = "boot"
    /\ task_status' = [task_status EXCEPT ![0] = "Running"]
    /\ start_time' = [start_time EXCEPT ![0] = get_time_us]
    /\ pc' = "user"
    /\ last' = [NoOp EXCEPT !.op = "run_first_task"]
    /\ UNCHANGED << num_app, current_task, syscall_times, page_table,
                    data_frames, mem, allocator, panic_msg >>

\* a dispatch that marks the next task Running and leaves current_task as it is
dispatch_stale(next, status, op) ==
    /\ IF next # None
       THEN /\ task_status' = [status EXCEPT ![unwrap(next)] = "Running"]
            /\ current_task' = current_task
            /\ start_time' = IF start_time[unwrap(next)] = 0
                             THEN [start_time EXCEPT ![unwrap(next)] = get_time_us]
                             ELSE start_time
            /\ pc' = "user"
            /\ panic_msg' = panic_msg
            /\ last' = [NoOp EXCEPT !.op = op, !.next = next,
                                    !.next_status = status[unwrap(next)]]
       ELSE /\ task_status' = status
            /\ pc' = "panic"
            /\ panic_msg' = "All applications completed!"
            /\ last' = [NoOp EXCEPT !.op = op]
            /\ UNCHANGED << current_task, start_time >>
    /\ UNCHANGED << num_app, syscall_times, page_table, data_frames, mem, allocator >>

\* mod.rs:133-154: run_next_task once find_next_task gave next; status is
\* the task statuses after the current task was marked, op the operation
dispatch(next, status, op) ==
    /\ IF next # None
       THEN /\ task_status' = [status EXCEPT ![unwrap(next)] = "Running"]
            /\ current_task' = unwrap(next)
            /\ start_time' = IF start_time[unwrap(next)] = 0
                             THEN [start_time EXCEPT ![unwrap(next)] = get_time_us]
                             ELSE start_time
            /\ pc' = "user"
            /\ panic_msg' = panic_msg
            /\ last' = [NoOp EXCEPT !.op = op, !.next = next,
                                    !.next_status = status[unwrap(next)]]
       ELSE /\ task_status' = status
            /\ pc' = "panic"
            /\ panic_msg' = "All applications completed!"
            /\ last' = [NoOp EXCEPT !.op = op]
            /\ UNCHANGED << current_task, start_time >>
    /\ UNCHANGED << num_app, syscall_times, page_table, data_frames, mem, allocator >>

\* run_next_task, after the current task was marked
run_next_task(status, op) == dispatch(find_next_task(status), status, op)

\* suspend_current_and_run_next
suspend_current_and_run_next ==
    /\ pc = "user"
    /\ run_next_task(mark_current_suspended, "suspend")

\* exit_current_and_run_next
exit_current_and_run_next ==
    /\ pc = "user"
    /\ run_next_task(mark_current_exited, "exit")

(***************************************************************************)
(* TaskManager: accounting, mod.rs:157-176 and 304-317.                    *)
(***************************************************************************)
\* the number of update_syscall_times calls counted so far, over all tasks
RECURSIVE SumTo(_, _)
SumTo(f, n) == IF n < 0 THEN 0 ELSE f[n] + SumTo(f, n - 1)
TotalOf(row) == SumTo(row, MaxSyscallId)
TotalCalls == SumTo([t \in Tasks |-> TotalOf(syscall_times[t])], num_app - 1)

\* an update that counts every call for task 0
update_syscall_times_first(id) ==
    /\ pc = "user"
    /\ TotalCalls < MaxCalls
    /\ syscall_times' = [syscall_times EXCEPT ![0][id] = @ + 1]
    /\ last' = [NoOp EXCEPT !.op = "update_syscall_times", !.args = << id >>]
    /\ UNCHANGED << num_app, task_status, current_task, start_time, page_table,
                    data_frames, mem, allocator, pc, panic_msg >>

\* update_syscall_times(id)
update_syscall_times(id) ==
    /\ pc = "user"
    /\ TotalCalls < MaxCalls
    /\ syscall_times' = [syscall_times EXCEPT ![current_task][id] = @ + 1]
    /\ last' = [NoOp EXCEPT !.op = "update_syscall_times", !.args = << id >>]
    /\ UNCHANGED << num_app, task_status, current_task, start_time, page_table,
                    data_frames, mem, allocator, pc, panic_msg >>

\* get_syscall_times: the table of the current task
get_syscall_times == syscall_times[current_task]

\* a reading of the clock that forgets the start_time stamp
get_start_time_clock == get_time_us

\* TaskManager::get_start_time
get_start_time == get_time_us - start_time[current_task]

\* get_current_task_time
get_current_task_time == get_start_time \div 1000

\* the clock advances by one timer interval
TICK == 700
Tick ==
    /\ time + TICK <= MaxTime
    /\ time' = time + TICK
    /\ UNCHANGED << kernel_vars, last, trace, calls, first_dispatch, borrowed >>

(***************************************************************************)
(* TaskManager: mmap and munmap, mod.rs:178-257 and 319-327.  An           *)
(* operation gives [ret, w, access]: what it returns, the machine it       *)
(* leaves, and whether it took exclusive access to the task table.         *)
(***************************************************************************)
\* the address space of task 0, whichever task is current
current_space_first ==
    [mem |-> mem, alloc |-> allocator, pt |-> page_table[0],
     df |-> data_frames[0], panic |-> NoPanic]

\* inner.tasks[current], under exclusive_access: what the operation works on
current_space ==
    [mem |-> mem, alloc |-> allocator, pt |-> page_table[current_task],
     df |-> data_frames[current_task], panic |-> NoPanic]

\* an argument check that accepts a port with bits 0-2 all clear
mmap_bad_args_nonzero(start, port) ==
    \/ start % PAGE_SIZE # 0
    \/ port - LowBits(port, 3) # 0

\* mod.rs:180: start unaligned, or port & !0x7 != 0, or port & 0x7 == 0
mmap_bad_args(start, port) ==
    \/ start % PAGE_SIZE # 0
    \/ port - LowBits(port, 3) # 0
    \/ LowBits(port, 3) = 0

\* a permission taken from port without the shift past the V bit
map_permission_unshifted(port) == BitOr(LowBits(port, 8), PTE_U)

\* mod.rs:187-188: MapPermission::from_bits((port as u8) << 1).unwrap() | U
map_permission(port) == BitOr(LowBits(Shl(LowBits(port, 8), 1), 8), PTE_U)

\* VPNRange::new(VirtPageNum::from(start_address), end_address.ceil())
covered(start, len) == VPNRange(floor(start), ceil(start + len))

\* an overlap check that looks at the first page of the range only
mmap_range_used_first(w, start, len) ==
    is_some_valid(memory_set_translate(w, floor(start)))

\* a mmap without the scan of the range
mmap_range_used_never(w, start, len) == FALSE

\* mod.rs:193-202: some page of the range translates to a valid entry
mmap_range_used(w, start, len) ==
    \E vpn \in covered(start, len) : is_some_valid(memory_set_translate(w, vpn))

\* mod.rs:210-216: the pages re-checked after the mapping
mmap_recheck(w, start, len) ==
    IF w.panic # NoPanic THEN [ret |-> 0, w |-> w, access |-> TRUE]
    ELSE IF \E vpn \in covered(start, len) : memory_set_translate(w, vpn) = None
    THEN [ret |-> -1, w |-> w, access |-> TRUE]
    ELSE [ret |-> 0, w |-> w, access |-> TRUE]

\* TaskManager::mmap
mmap(w, start, len, port) ==
    IF mmap_bad_args(start, port) THEN [ret |-> -1, w |-> w, access |-> FALSE]
    ELSE IF mmap_range_used(w, start, len) THEN [ret |-> -1, w |-> w, access |-> TRUE]
    ELSE mmap_recheck(insert_framed_area(w, start, start + len, map_permission(port)),
                      start, len)

\* a pre-pass that looks at the first page of the range only
munmap_range_unmapped_first(w, start, len) ==
    ~is_some_valid(memory_set_translate(w, floor(start)))

\* mod.rs:231-241: some page of the range does not translate, or translates
\* to an entry that is not valid
munmap_range_unmapped(w, start, len) ==
    \E vpn \in covered(start, len) : ~is_some_valid(memory_set_translate(w, vpn))

\* mod.rs:243-245: memory_set.munmap of the pages l .. r-1, in ascending order
RECURSIVE munmap_pages(_, _, _)
munmap_pages(w, l, r) ==
    IF l >= r \/ w.panic # NoPanic THEN w
    ELSE munmap_pages(memory_set_munmap(w, l), l + 1, r)

\* mod.rs:247-256: the pages re-checked after the unmapping
munmap_recheck(w, start, len) ==
    IF w.panic # NoPanic THEN [ret |-> 0, w |-> w, access |-> TRUE]
    ELSE IF \E vpn \in covered(start, len) : is_some_valid(memory_set_translate(w, vpn))
    THEN [ret |-> -1, w |-> w, access |-> TRUE]
    ELSE [ret |-> 0, w |-> w, access |-> TRUE]

\* TaskManager::munmap
munmap(w, start, len) ==
    IF start % PAGE_SIZE # 0 THEN [ret |-> -1, w |-> w, access |-> FALSE]
    ELSE IF munmap_range_unmapped(w, start, len) THEN [ret |-> -1, w |-> w, access |-> TRUE]
    ELSE munmap_recheck(munmap_pages(w, floor(start), ceil(start + len)), start, len)

(***************************************************************************)
(* What the claims say of a call, in their own terms.                      *)
(***************************************************************************)
\* the pages that the bytes [start, start+len) lie in
PagesOf(start, len) ==
    { v \in 0 .. ((start + len) \div PAGE_SIZE) :
        v * PAGE_SIZE < start + len /\ (v + 1) * PAGE_SIZE > start }

\* the pages the model looks at
Pages == { 0, 1, 2, 3, 512, 513 }

\* the entry that page vpn translates to in the address space of task t, 0 if none
EntryOf(t, vpn) ==
    IF translate(mem, page_table[t].root_ppn, vpn) = None THEN 0
    ELSE unwrap(translate(mem, page_table[t].root_ppn, vpn))

\* page vpn has a valid translation in the address space of task t
Mapped(t, vpn) == EntryOf(t, vpn) % 2 = 1

\* the entries of all pages of task t
EntriesOf(t) == [v \in Pages |-> EntryOf(t, v)]

\* what holds of the arguments of a call of the current task, as it is made
PreOf(start, len, port_ok) ==
    [aligned |-> start % PAGE_SIZE = 0,
     port_ok |-> port_ok,
     some_mapped |-> \E v \in PagesOf(start, len) : Mapped(current_task, v),
     all_mapped |-> \A v \in PagesOf(start, len) : Mapped(current_task, v)]

\* a call of mmap on a range no page of which is mapped, with good arguments
Fresh(l) == l.op = "mmap" /\ l.pre.aligned /\ l.pre.port_ok /\ ~l.pre.some_mapped

\* the machine after an operation of the current task ended as r = [ret, w,
\* access]: it returned r.ret, or the kernel panicked
Returns(r, op, args, pre) ==
    /\ mem' = r.w.mem
    /\ allocator' = r.w.alloc
    /\ page_table' = [page_table EXCEPT ![current_task] = r.w.pt]
    /\ data_frames' = [data_frames EXCEPT ![current_task] = r.w.df]
    /\ pc' = IF r.w.panic # NoPanic THEN "panic" ELSE pc
    /\ panic_msg' = r.w.panic
    /\ last' = [NoOp EXCEPT !.op = op, !.args = args, !.ret = r.ret,
                            !.access = r.access, !.pre = pre,
                            !.prev = IF Fresh(last)
                                     THEN Some(<< last.args, last.ret >>)
                                     ELSE None]
    /\ UNCHANGED << num_app, task_status, current_task, start_time, syscall_times >>

\* the values a task passes to mmap and munmap: a start that is aligned, one
\* that is not, and one whose page lies under another second-level table;
\* a length of one page, and one that ends in the page after
Starts == { 0, 1, 512 * PAGE_SIZE }
Lens == { PAGE_SIZE, PAGE_SIZE + 1 }
Ports == 0 .. MaxPort
\* fewer of them, where several tasks or every permission value are tried
OneStart == { 0 }
LowStarts == { 0, 1 }
OneLen == { PAGE_SIZE }
OnePort == { 3 }

\* mmap(start, len, port), called by the current task
Mmap(start, len, port) ==
    /\ pc = "user"
    /\ Returns(mmap(current_space, start, len, port), "mmap", << start, len, port >>,
               PreOf(start, len, port \in 1 .. 7))

\* munmap(start, len), called by the current task
Munmap(start, len) ==
    /\ pc = "user"
    /\ Returns(munmap(current_space, start, len), "munmap", << start, len >>,
               PreOf(start, len, TRUE))

(***************************************************************************)
(* UPSafeCell (sync/up.rs) around TaskManagerInner.  What an operation     *)
(* does to the cell is a sequence of "acquire" (exclusive_access),         *)
(* "release" (the RefMut dropped, by drop(inner) or at the end of its      *)
(* scope) and the way control leaves: "swap" (__switch), "return", "panic".*)
(***************************************************************************)
\* the cell after the events ev[i], ev[i+1], .., held saying whether an
\* access is outstanding: [held, aborted]; borrow_mut aborts when an access
\* is outstanding
RECURSIVE exclusive_access(_, _, _)
exclusive_access(held, ev, i) ==
    IF i > Len(ev) THEN [held |-> held, aborted |-> FALSE]
    ELSE IF ev[i] = "acquire"
    THEN IF held THEN [held |-> held, aborted |-> TRUE]
         ELSE exclusive_access(TRUE, ev, i + 1)
    ELSE IF ev[i] = "release" THEN exclusive_access(FALSE, ev, i + 1)
    ELSE [held |-> held, aborted |-> FALSE]

\* run_first_task: mod.rs:75, drop(inner) at 82, __switch at 86
run_first_task_accesses == << "acquire", "release", "swap" >>

\* mark_current_suspended, mark_current_exited, find_next_task: the access
\* is a local of the function
scoped_accesses == << "acquire", "release" >>

\* a run_next_task that does not drop inner before __switch
run_next_task_accesses_held(next) ==
    scoped_accesses \o
        (IF next # None THEN << "acquire", "swap", "release" >> ELSE << "panic" >>)

\* run_next_task: find_next_task, then mod.rs:134, drop(inner) at 145,
\* __switch at 149; or the panic at 153
run_next_task_accesses(next) ==
    scoped_accesses \o
        (IF next # None THEN << "acquire", "release", "swap" >> ELSE << "panic" >>)

\* suspend_current_and_run_next, exit_current_and_run_next
suspend_accesses ==
    scoped_accesses \o run_next_task_accesses(find_next_task(mark_current_suspended))
exit_accesses ==
    scoped_accesses \o run_next_task_accesses(find_next_task(mark_current_exited))

\* get_syscall_times, get_start_time (and update_syscall_times alike)
accounting_accesses == << "acquire", "release", "return" >>

\* mmap and munmap ended as r = [ret, w, access]: the early return is before
\* exclusive_access (mod.rs:180-182, 221-223), every other one after it
memory_accesses(r) ==
    IF r.access THEN << "acquire", "release", "return" >> ELSE << "return" >>

\* borrow_mut panicked
BorrowAbort ==
    /\ pc' = "panic"
    /\ panic_msg' = "already borrowed: BorrowMutError"
    /\ last' = [NoOp EXCEPT !.op = "abort"]
    /\ UNCHANGED << num_app, task_status, current_task, start_time, syscall_times,
                    page_table, data_frames, mem, allocator, borrowed >>

\* the operation A with what it does to the cell
Borrowing(ev, A) ==
    IF exclusive_access(borrowed, ev, 1).aborted
    THEN pc # "panic" /\ BorrowAbort
    ELSE A /\ borrowed' = exclusive_access(borrowed, ev, 1).held

\* get_syscall_times and get_current_task_time, read by the current task
GetTaskInfo ==
    /\ pc = "user"
    /\ last' = [NoOp EXCEPT !.op = "get_task_info",
                            !.args = << get_syscall_times, get_current_task_time >>]
    /\ UNCHANGED << num_app, task_status, current_task, start_time, syscall_times,
                    page_table, data_frames, mem, allocator, pc, panic_msg >>

\* the arguments of mmap where the early return matters: a port that is
\* rejected and one that is not
TwoPorts == { 0, 3 }

(***************************************************************************)
(* The operations of PageTable, applied to the page table of the current   *)
(* task as the kernel holds it.                                            *)
(***************************************************************************)
\* the pages, frame numbers and flag sets that map, unmap and translate are
\* given: page 1 holds the image, page 512 lies under a second-level table
\* that does not exist yet
TablePages == { 0, 1, 512 }
TablePpns == { 3, MaxPpn }
TableFlags == { 0, PTE_R, PTE_R + PTE_W + PTE_U }

\* the pages translate is asked for: 513 lies next to 512, and page 262144
\* under an entry of the root table that is never made
TranslatePages == { 0, 1, 512, 513, 262144 }

\* the machine after an operation on the page table left it as w
TableOp(w, op, args, ret) ==
    /\ mem' = w.mem
    /\ allocator' = w.alloc
    /\ page_table' = [page_table EXCEPT ![current_task] = w.pt]
    /\ data_frames' = [data_frames EXCEPT ![current_task] = w.df]
    /\ pc' = IF w.panic # NoPanic THEN "panic" ELSE pc
    /\ panic_msg' = w.panic
    /\ last' = [NoOp EXCEPT !.op = op, !.args = args, !.ret = ret]
    /\ UNCHANGED << num_app, task_status, current_task, start_time, syscall_times >>

\* page_table.map(vpn, ppn, flags)
PageTable_map(vpn, p, flags) ==
    /\ pc # "panic"
    /\ TableOp(map(current_space, vpn, p, flags), "map", << vpn, p, flags >>, 0)

\* page_table.unmap(vpn)
PageTable_unmap(vpn) ==
    /\ pc # "panic"
    /\ TableOp(unmap(current_space, vpn), "unmap", << vpn >>, 0)

\* the entry at the place that find_pte_create gave, r = [w, addr]
translate_created(r) ==
    [w |-> r.w,
     ret |-> IF r.w.panic # NoPanic THEN None ELSE Some(ReadPte(r.w.mem, r.addr))]

\* a translate that walks with find_pte_create
page_table_translate_creating(w, vpn) == translate_created(find_pte_create(w, vpn))

\* PageTable::translate(&self, vpn) on the machine w: [w, ret], the machine
\* it leaves and the copy of the entry, or None
page_table_translate(w, vpn) ==
    [w |-> w, ret |-> translate(w.mem, w.pt.root_ppn, vpn)]

\* the machine after a translate ended as r = [w, ret]
TranslateOp(r, vpn) == TableOp(r.w, "translate", << vpn >>, r.ret)

\* page_table.translate(vpn)
PageTable_translate(vpn) ==
    /\ pc # "panic"
    /\ TranslateOp(page_table_translate(current_space, vpn), vpn)

(***************************************************************************)
(* Specifications.  The history variables trace, calls and first_dispatch  *)
(* are kept by the specification that reads them.                          *)
(***************************************************************************)
\* a scheduling operation A, recorded in the trace with the task it leaves current
Traced(A) ==
    /\ Len(trace) < MaxTrace
    /\ A
    /\ trace' = Append(trace, [op |-> last'.op, task |-> current_task'])

\* a scheduling operation A, recorded in a trace that keeps the last MaxTrace
\* operations
Windowed(A) ==
    /\ A
    /\ trace' = Append(IF Len(trace) < MaxTrace THEN trace ELSE Tail(trace),
                       [op |-> last'.op, task |-> current_task'])

\* the first dispatch of the task that an operation A leaves running, recorded
Stamped(A) ==
    /\ A
    /\ first_dispatch' =
          IF pc' = "user" /\ first_dispatch[current_task'] = None
          THEN [first_dispatch EXCEPT ![current_task'] = Some(time)]
          ELSE first_dispatch

\* update_syscall_times(id), counted for the task that is current
Counted(id) ==
    /\ update_syscall_times(id)
    /\ calls' = [calls EXCEPT ![current_task][id] = @ + 1]

\* scheduling alone
NextSched ==
    /\ \/ Traced(run_first_task)
       \/ Traced(suspend_current_and_run_next)
       \/ Traced(exit_current_and_run_next)
    /\ UNCHANGED << time, calls, first_dispatch, borrowed >>

SpecSched == Init /\ [][NextSched]_vars

\* scheduling and the syscall counters
NextCount ==
    \/ /\ \/ run_first_task
          \/ suspend_current_and_run_next
          \/ exit_current_and_run_next
       /\ UNCHANGED << time, trace, calls, first_dispatch, borrowed >>
    \/ /\ \E id \in SyscallIds : Counted(id)
       /\ UNCHANGED << time, trace, first_dispatch, borrowed >>

SpecCount == Init /\ [][NextCount]_vars

\* scheduling and the clock
NextTime ==
    \/ /\ \/ Stamped(run_first_task)
          \/ Stamped(suspend_current_and_run_next)
          \/ Stamped(exit_current_and_run_next)
       /\ UNCHANGED << time, trace, calls, borrowed >>
    \/ Tick

SpecTime == Init /\ [][NextTime]_vars

\* scheduling and the address spaces of the tasks
NextMem ==
    /\ \/ run_first_task
       \/ suspend_current_and_run_next
       \/ exit_current_and_run_next
       \/ \E start \in OneStart, len \in OneLen, port \in OnePort : Mmap(start, len, port)
       \/ \E start \in OneStart, len \in OneLen : Munmap(start, len)
    /\ UNCHANGED << time, trace, calls, first_dispatch, borrowed >>

SpecMem == InitMem /\ [][NextMem]_vars

\* the address space of one task, every start tried
NextAddr ==
    /\ \/ run_first_task
       \/ \E start \in Starts, len \in Lens, port \in OnePort : Mmap(start, len, port)
       \/ \E start \in Starts, len \in Lens : Munmap(start, len)
    /\ UNCHANGED << time, trace, calls, first_dispatch, borrowed >>

SpecAddr == InitFor(1) /\ [][NextAddr]_vars

\* the address space of one task, every permission value tried
NextPort ==
    /\ \/ run_first_task
       \/ \E start \in LowStarts, len \in OneLen, port \in Ports : Mmap(start, len, port)
       \/ \E start \in LowStarts, len \in OneLen : Munmap(start, len)
    /\ UNCHANGED << time, trace, calls, first_dispatch, borrowed >>

SpecPort == InitFor(1) /\ [][NextPort]_vars

\* the page table of one task, its operations called one by one
NextTable ==
    /\ \/ \E vpn \in TablePages, p \in TablePpns, flags \in TableFlags :
             PageTable_map(vpn, p, flags)
       \/ \E vpn \in TablePages : PageTable_unmap(vpn)
       \/ \E vpn \in TranslatePages : PageTable_translate(vpn)
    /\ UNCHANGED << time, trace, calls, first_dispatch, borrowed >>

SpecTable == InitFor(1) /\ [][NextTable]_vars

\* every operation of the task manager, with the cell
NextCell ==
    /\ \/ Borrowing(run_first_task_accesses, run_first_task)
       \/ Borrowing(suspend_accesses, suspend_current_and_run_next)
       \/ Borrowing(exit_accesses, exit_current_and_run_next)
       \/ Borrowing(accounting_accesses, GetTaskInfo)
       \/ \E start \in OneStart, len \in OneLen, port \in TwoPorts :
             Borrowing(memory_accesses(mmap(current_space, start, len, port)),
                       Mmap(start, len, port))
       \/ \E start \in LowStarts, len \in OneLen :
             Borrowing(memory_accesses(munmap(current_space, start, len)),
                       Munmap(start, len))
    /\ UNCHANGED << time, trace, calls, first_dispatch >>

SpecCell == InitMem /\ [][NextCell]_vars

\* scheduling without end: main.rs:59-61 arms the timer before run_first_task,
\* so a task that does not yield or exit by itself is suspended by the timer
\* interrupt, and a reschedule always comes
NextFair ==
    /\ \/ Windowed(run_first_task)
       \/ Windowed(suspend_current_and_run_next)
       \/ Windowed(exit_current_and_run_next)
    /\ UNCHANGED << time, calls, first_dispatch, borrowed >>

SpecFair == Init /\ [][NextFair]_vars /\ WF_vars(NextFair)

\* every operation
Next ==
    \/ /\ \/ run_first_task
          \/ suspend_current_and_run_next
          \/ exit_current_and_run_next
          \/ \E start \in Starts, len \in Lens, port \in Ports : Mmap(start, len, port)
          \/ \E start \in Starts, len \in Lens : Munmap(start, len)
          \/ \E id \in SyscallIds : update_syscall_times(id)
       /\ UNCHANGED << time, trace, calls, first_dispatch, borrowed >>
    \/ Tick

Spec == Init /\ [][Next]_vars

(***************************************************************************)
(* The claims.                                                             *)
(***************************************************************************)
\* the arguments of the last call
LastStart == last.args[1]
LastLen == last.args[2]
LastPort == last.args[3]

\* C1: when the current task calls mmap(start, len, port) with start aligned,
\* port valid and no page of the range mapped, the call returns 0; and when
\* munmap(start, len) follows it immediately, that returns 0 too and no page
\* of [start, start+len) is mapped in the address space of the task afterwards.
C1_MmapThenMunmap ==
    /\ (pc = "user" /\ Fresh(last)) => last.ret = 0
    /\ (/\ pc = "user"
        /\ last.op = "munmap"
        /\ last.prev # None
        /\ unwrap(last.prev)[1][1] = LastStart
        /\ unwrap(last.prev)[1][2] = LastLen)
       => /\ unwrap(last.prev)[2] = 0
          /\ last.ret = 0
          /\ \A v \in PagesOf(LastStart, LastLen) : ~Mapped(current_task, v)

\* C1, reached: a range of two pages was mapped and then unmapped
C1_Witness ==
    /\ pc = "user"
    /\ last.op = "munmap"
    /\ last.prev # None
    /\ unwrap(last.prev)[1][1] = LastStart
    /\ unwrap(last.prev)[1][2] = LastLen
    /\ LastLen = PAGE_SIZE + 1
    /\ last.ret = 0

\* C2: when some page of the range of an mmap call is already mapped in the
\* address space of the current task, the call returns -1 and the page tables
\* and the frames of every address space are what they were: every page
\* translates to the entry it translated to before.
C2_OverlapRejected ==
    [][ (/\ last'.op = "mmap"
         /\ \E v \in PagesOf(last'.args[1], last'.args[2]) : Mapped(current_task, v))
        => /\ last'.ret = -1
           /\ pc' = "user"
           /\ << mem, page_table, data_frames >>' = << mem, page_table, data_frames >> ]_vars

\* C2, reached: a second mmap overlaps an earlier one in its first page only;
\* it fails, the first page stays mapped and the second stays unmapped
C2_Witness ==
    /\ pc = "user"
    /\ last.op = "mmap"
    /\ last.ret = -1
    /\ last.pre.aligned /\ last.pre.port_ok
    /\ LastStart = 0 /\ LastLen = PAGE_SIZE + 1
    /\ 0 \in DOMAIN data_frames[current_task]
    /\ Mapped(current_task, 0)
    /\ ~Mapped(current_task, 1)

\* port has a bit above bit 2 set, or bits 0-2 all clear
BadPort(port) ==
    \/ \E i \in 3 .. 30 : Bit(port, i) = 1
    \/ \A i \in 0 .. 2 : Bit(port, i) = 0

\* C3: mmap returns -1, without access to the task table and with the address
\* space and the frame allocator as they were, when start is not a multiple of
\* the page size or port has a bit above bit 2 set or bits 0-2 all clear.
C3_BadArgsRejected ==
    [][ (/\ last'.op = "mmap"
         /\ \/ last'.args[1] % PAGE_SIZE # 0
            \/ BadPort(last'.args[3]))
        => /\ last'.ret = -1
           /\ ~last'.access
           /\ pc' = "user"
           /\ EntriesOf(current_task)' = EntriesOf(current_task)
           /\ << mem, allocator, page_table, data_frames >>' =
                 << mem, allocator, page_table, data_frames >> ]_vars

\* C3, reached: an mmap with a valid port and an unaligned start was rejected
C3_Witness ==
    /\ pc = "user"
    /\ last.op = "mmap"
    /\ LastStart % PAGE_SIZE # 0
    /\ ~BadPort(LastPort)
    /\ last.ret = -1

\* C4: munmap returns -1 and leaves the page tables and the frames of every
\* address space as they were, so unmaps no page, when start is unaligned or
\* some page of the range is not mapped; and after a munmap that returns 0
\* no page of the range is mapped.
C4_MunmapAllOrNothing ==
    [][ /\ (/\ last'.op = "munmap"
            /\ \/ last'.args[1] % PAGE_SIZE # 0
               \/ \E v \in PagesOf(last'.args[1], last'.args[2]) : ~Mapped(current_task, v))
           => /\ last'.ret = -1
              /\ pc' = "user"
              /\ << mem, page_table, data_frames >>' = << mem, page_table, data_frames >>
        /\ (last'.op = "munmap" /\ last'.ret = 0 /\ pc' = "user")
           => \A v \in PagesOf(last'.args[1], last'.args[2]) : ~Mapped(current_task, v)' ]_vars

\* C4, reached: a munmap of two pages, one mapped and one not, was rejected
C4_Witness ==
    /\ pc = "user"
    /\ last.op = "munmap"
    /\ last.ret = -1
    /\ last.pre.aligned /\ last.pre.some_mapped /\ ~last.pre.all_mapped
    /\ Mapped(current_task, 0)
    /\ ~Mapped(current_task, 1)

\* C5: after an mmap(start, len, port) that returned 0, every page of the
\* range is mapped by a valid, user-accessible entry that is readable iff bit
\* 0 of port is set, writable iff bit 1 is, executable iff bit 2 is; and an
\* mmap of an unmapped range at an aligned start returns 0 for each of the
\* ports 1 .. 7.
C5_PortToPermission ==
    /\ (pc = "user" /\ last.op = "mmap" /\ last.ret = 0)
       => \A v \in PagesOf(LastStart, LastLen) :
             /\ is_valid(EntryOf(current_task, v))
             /\ Bit(EntryOf(current_task, v), 4) = 1
             /\ readable(EntryOf(current_task, v)) <=> Bit(LastPort, 0) = 1
             /\ writable(EntryOf(current_task, v)) <=> Bit(LastPort, 1) = 1
             /\ executable(EntryOf(current_task, v)) <=> Bit(LastPort, 2) = 1
    /\ (/\ pc = "user" /\ last.op = "mmap" /\ LastPort \in 1 .. 7
        /\ last.pre.aligned /\ ~last.pre.some_mapped)
       => last.ret = 0

\* C5, reached: a page mapped with port 5 is readable and executable only
C5_Witness ==
    /\ pc = "user"
    /\ last.op = "mmap"
    /\ last.ret = 0
    /\ LastPort = 5
    /\ readable(EntryOf(current_task, 0))
    /\ ~writable(EntryOf(current_task, 0))
    /\ executable(EntryOf(current_task, 0))

\* the last operation was a reschedule
Rescheduled == last.op \in { "suspend", "exit" }

\* C6: the task that a reschedule chooses was Ready when it was chosen, and it
\* is the one dispatched; a reschedule that leaves every task Exited has
\* chosen none and halted the kernel with "All applications completed!".
C6_ChosenIsReady ==
    /\ (Rescheduled /\ last.next # None)
       => /\ last.next_status = "Ready"
          /\ pc = "user"
          /\ current_task = unwrap(last.next)
          /\ task_status[current_task] = "Running"
    /\ (Rescheduled /\ \A t \in Tasks : task_status[t] = "Exited")
       => /\ last.next = None
          /\ pc = "panic"
          /\ panic_msg = "All applications completed!"

\* C6, reached: the last of three tasks exited and the kernel halted
C6_Witness ==
    /\ num_app = 3
    /\ last.op = "exit"
    /\ \A t \in Tasks : task_status[t] = "Exited"
    /\ pc = "panic"

\* no task has exited so far
NoExit == \A i \in 1 .. Len(trace) : trace[i].op # "exit"

\* C7: as long as no task exits, the i-th operation of run_first_task followed
\* by suspend_current_and_run_next calls leaves task (i - 1) mod num_app
\* Running: 0, 1, .., num_app - 1, 0, 1, ..
C7_RoundRobin ==
    NoExit =>
        /\ \A i \in 1 .. Len(trace) : trace[i].task = (i - 1) % num_app
        /\ Len(trace) > 0 =>
              /\ current_task = trace[Len(trace)].task
              /\ task_status[current_task] = "Running"
              /\ \A t \in Tasks \ {current_task} : task_status[t] = "Ready"

\* C7, reached: three tasks were dispatched 0, 1, 2, 0, 1, 2, 0
C7_Witness ==
    /\ num_app = 3
    /\ NoExit
    /\ Len(trace) = 7
    /\ trace[4].task = 0 /\ trace[5].task = 1 /\ trace[6].task = 2 /\ trace[7].task = 0

\* the operations so far are run_first_task and then those of ops, in order
Ran(ops) ==
    /\ Len(trace) = Len(ops) + 1
    /\ trace[1].op = "run_first_task"
    /\ \A i \in 1 .. Len(ops) : trace[i + 1].op = ops[i]

\* C8 as stated: with three tasks, after task 0 suspended, task 1 exited and
\* task 2 exited, the scheduler has halted.
C8_AsStated ==
    (num_app = 3 /\ Ran(<< "suspend", "exit", "exit" >>)) => pc = "panic"

\* C8, amended: with three tasks, run_first_task leaves task 0 Running; task 0
\* suspends, and task 1 is Running and task 0 Ready; task 1 exits, and task 1
\* is Exited and task 2 Running; task 2 exits, and task 2 is Exited and task
\* 0, which was Ready, is Running again; when task 0 exits too the kernel
\* halts with "All applications completed!".
C8_EndToEnd ==
    num_app = 3 =>
        /\ Ran(<< >>) =>
              pc = "user" /\ current_task = 0 /\ task_status[0] = "Running"
        /\ Ran(<< "suspend" >>) =>
              /\ pc = "user" /\ current_task = 1
              /\ task_status[1] = "Running" /\ task_status[0] = "Ready"
        /\ Ran(<< "suspend", "exit" >>) =>
              /\ pc = "user" /\ current_task = 2
              /\ task_status[1] = "Exited" /\ task_status[2] = "Running"
              /\ task_status[0] = "Ready"
        /\ Ran(<< "suspend", "exit", "exit" >>) =>
              /\ pc = "user" /\ current_task = 0
              /\ task_status[2] = "Exited" /\ task_status[1] = "Exited"
              /\ task_status[0] = "Running"
        /\ Ran(<< "suspend", "exit", "exit", "exit" >>) =>
              /\ pc = "panic" /\ panic_msg = "All applications completed!"
              /\ \A t \in Tasks : task_status[t] = "Exited"

\* C8, reached: task 2 exited while task 0 was Ready, and task 0 runs
C8_Witness ==
    /\ num_app = 3
    /\ Ran(<< "suspend", "exit", "exit" >>)
    /\ current_task = 0
    /\ task_status[0] = "Running"

\* C9: the count that get_syscall_times gives for id is the number of
\* update_syscall_times(id) calls made while the current task was current;
\* neither calls of other tasks nor calls with other ids change it.
C9_SyscallTimes ==
    /\ pc = "user" =>
          \A id \in SyscallIds : get_syscall_times[id] = calls[current_task][id]
    /\ \A t \in Tasks : \A id \in SyscallIds : syscall_times[t][id] = calls[t][id]

\* C9, reached: the current task made two calls with id 0 and another task
\* one call with id 1
C9_Witness ==
    /\ pc = "user"
    /\ calls[current_task] = [id \in SyscallIds |-> IF id = 0 THEN 2 ELSE 0]
    /\ \E t \in Tasks \ {current_task} : calls[t][1] = 1 /\ calls[t][0] = 0
    /\ get_syscall_times[0] = 2

\* C10 as stated: get_current_task_time gives the microseconds between the
\* start_time stamp of the current task and the call.
C10_AsStated ==
    pc = "user" => get_current_task_time = time - start_time[current_task]

\* C10, amended: get_current_task_time gives the whole milliseconds between
\* the start_time stamp of the current task and the call: the clock reading
\* in microseconds minus the stamp, divided by 1000 and rounded down.
C10_Milliseconds ==
    pc = "user" =>
        /\ get_current_task_time * 1000 <= time - start_time[current_task]
        /\ time - start_time[current_task] < (get_current_task_time + 1) * 1000

\* C10, reached: 1400 microseconds after its stamp a task reads 1
C10_Witness ==
    /\ pc = "user"
    /\ start_time[current_task] > 0
    /\ time - start_time[current_task] > 1000
    /\ get_current_task_time = 1

\* C11: the start_time of a task that has been dispatched is the clock
\* reading at its first dispatch, whatever that reading was and whether the
\* dispatch was by run_first_task or by run_next_task; no later dispatch
\* changes it.
C11_StampedOnce ==
    \A t \in Tasks :
        first_dispatch[t] # None => start_time[t] = unwrap(first_dispatch[t])

\* what translate(vpn) gives in the page table of the current task
Translate(vpn) == translate(mem, page_table[current_task].root_ppn, vpn)

\* what translate(vpn) gives after the step
TranslateAfter(vpn) == translate(mem', page_table'[current_task'].root_ppn, vpn)

\* the step is a map(vpn, ppn, flags) of a page that was not mapped, and it
\* returned
MapStep ==
    /\ last'.op = "map"
    /\ pc' # "panic"
    /\ ~is_some_valid(Translate(last'.args[1]))

\* after the step translate(vpn) gives an entry with the page number and the
\* flags of the map, and Valid
MapStored ==
    /\ TranslateAfter(last'.args[1]) # None
    /\ ppn_of(unwrap(TranslateAfter(last'.args[1]))) = last'.args[2]
    /\ flags_of(unwrap(TranslateAfter(last'.args[1]))) = BitOr(last'.args[3], PTE_V)

\* C12 as stated: after map(vpn, ppn, flags) of a page not mapped before,
\* translate(vpn) gives an entry with page number ppn and flags plus Valid,
\* and translate of every other page gives what it gave before.
C12_AsStated ==
    [][ MapStep =>
          /\ MapStored
          /\ \A u \in Pages \ {last'.args[1]} : TranslateAfter(u) = Translate(u) ]_vars

\* C12, amended: after map(vpn, ppn, flags) of a page not mapped before,
\* translate(vpn) gives an entry with page number ppn and flags plus Valid;
\* translate of every other page gives what it gave before, or, where it gave
\* not found before, an empty entry that is not valid.
C12_MapThenTranslate ==
    [][ MapStep =>
          /\ MapStored
          /\ \A u \in Pages \ {last'.args[1]} :
                \/ TranslateAfter(u) = Translate(u)
                \/ /\ Translate(u) = None
                   /\ TranslateAfter(u) = Some(PageTableEntry_empty) ]_vars

\* C12, reached: page 512 was mapped to the largest frame number, readable,
\* writable and user-accessible, under a second-level table made for it, and
\* page 513 now translates to an empty entry
C12_Witness ==
    /\ last.op = "map"
    /\ pc # "panic"
    /\ last.args = << 512, MaxPpn, PTE_R + PTE_W + PTE_U >>
    /\ Translate(512) = Some(PageTableEntry_new(MaxPpn, PTE_R + PTE_W + PTE_U + PTE_V))
    /\ Translate(513) = Some(PageTableEntry_empty)

\* C13: whenever control is in a task, after run_first_task and after each
\* completed suspend_current_and_run_next or exit_current_and_run_next, the
\* task at index current_task is Running, and it is the only one.
C13_CurrentIsRunning ==
    pc = "user" =>
        /\ task_status[current_task] = "Running"
        /\ \A t \in Tasks \ {current_task} : task_status[t] # "Running"

\* C13, reached: task 1 runs after task 0 exited and task 2 suspended
C13_Witness ==
    /\ pc = "user"
    /\ num_app = 3
    /\ current_task = 1
    /\ task_status = [t \in Tasks |-> IF t = 0 THEN "Exited"
                                      ELSE IF t = 1 THEN "Running" ELSE "Ready"]
    /\ last.op = "suspend"

\* the changes of status that may occur
StatusChanges ==
    { << "Ready", "Running" >>, << "Running", "Ready" >>, << "Running", "Exited" >> }

\* C14: a task that is Exited stays Exited and is not the task that a later
\* operation leaves running; and the status of a task changes only from Ready
\* to Running, from Running to Ready and from Running to Exited.
C14_ExitedIsTerminal ==
    [][ \A t \in Tasks :
          /\ task_status[t] = "Exited" =>
                /\ task_status'[t] = "Exited"
                /\ pc' = "user" => current_task' # t
          /\ task_status'[t] # task_status[t] =>
                << task_status[t], task_status'[t] >> \in StatusChanges ]_vars

\* C14, reached: task 0 exited, and two reschedules later the scan passed
\* over it from task 2 to task 1
C14_Witness ==
    /\ num_app = 3
    /\ Ran(<< "exit", "suspend", "suspend" >>)
    /\ task_status[0] = "Exited"
    /\ trace[3].task = 2
    /\ current_task = 1

\* the statuses of the tasks
Statuses == { "Ready", "Running", "Exited" }

\* the steps k in 1 .. num_app after task c at which a Ready task stands
ReadySteps(c, status) == { k \in 1 .. num_app : status[(c + k) % num_app] = "Ready" }

\* the first Ready task in ring order after task c, c itself last
FirstReadyAfter(c, status) ==
    IF ReadySteps(c, status) = {} THEN None
    ELSE Some((c + CHOOSE k \in ReadySteps(c, status) :
                       \A j \in ReadySteps(c, status) : k <= j) % num_app)

\* C15: for every assignment of statuses, find_next_task gives the task
\* (current + k) mod num_app for the least k in 1 .. num_app whose task is
\* Ready, and none exactly when no task is Ready; a reschedule dispatches the
\* task so chosen, counted from the task that was current, which is itself
\* the last candidate.
C15_FirstReadyInRing ==
    /\ \A status \in [Tasks -> Statuses] :
          /\ find_next_task(status) = FirstReadyAfter(current_task, status)
          /\ find_next_task(status) = None <=> \A t \in Tasks : status[t] # "Ready"
    /\ (Rescheduled /\ Len(trace) >= 2 /\ pc = "user") =>
          Some(current_task) =
             FirstReadyAfter(trace[Len(trace) - 1].task,
                             [task_status EXCEPT ![current_task] = "Ready"])

\* C15, reached: the only task of three that has not exited suspended and was
\* dispatched again
C15_Witness ==
    /\ num_app = 3
    /\ pc = "user"
    /\ last.op = "suspend"
    /\ Len(trace) >= 2
    /\ trace[Len(trace) - 1].task = current_task
    /\ \A t \in Tasks \ {current_task} : task_status[t] = "Exited"

\* C16: no operation of the task manager leaves an exclusive access to the
\* task table outstanding when it swaps to another task or returns, the early
\* returns of mmap and munmap included, and no exclusive_access ever aborts.
C16_AccessReleased ==
    /\ ~borrowed
    /\ panic_msg # "already borrowed: BorrowMutError"

\* C16, reached: task 1, dispatched by a swap out of task 0, returned from
\* an munmap that failed after it had taken the access
C16_Witness ==
    /\ pc = "user"
    /\ current_task = 1
    /\ last.op = "munmap"
    /\ last.access
    /\ last.ret = -1
    /\ ~borrowed

\* C17: an mmap or munmap changes the page table, the frames and the mapped
\* pages of no task but the current one; and what it returns depends on the
\* pages of the current task only: an munmap of a page the current task has
\* not mapped returns -1 and an mmap of such a page at an aligned start with
\* a valid port returns 0, whatever the other tasks have mapped there.
C17_OwnSpaceOnly ==
    [][ last'.op \in { "mmap", "munmap" } =>
          /\ \A t \in Tasks \ {current_task} :
                /\ EntriesOf(t)' = EntriesOf(t)
                /\ page_table'[t] = page_table[t]
                /\ data_frames'[t] = data_frames[t]
          /\ (/\ last'.op = "munmap"
              /\ \E v \in PagesOf(last'.args[1], last'.args[2]) : ~Mapped(current_task, v))
             => last'.ret = -1
          /\ (/\ last'.op = "mmap"
              /\ pc' = "user"
              /\ last'.args[1] % PAGE_SIZE = 0
              /\ ~BadPort(last'.args[3])
              /\ \A v \in PagesOf(last'.args[1], last'.args[2]) : ~Mapped(current_task, v))
             => last'.ret = 0 ]_vars

\* C17, reached: task 1 called munmap on page 0, which task 0 has mapped and
\* task 1 has not; the call failed and the page of task 0 stays mapped
C17_Witness ==
    /\ pc = "user"
    /\ current_task = 1
    /\ last.op = "munmap"
    /\ last.ret = -1
    /\ 0 \in DOMAIN data_frames[0]
    /\ Mapped(0, 0)
    /\ ~Mapped(1, 0)

\* the assertions of PageTable::map and PageTable::unmap
PageTableAsserts ==
    { "vpn is mapped before mapping", "vpn is invalid before unmapping" }

\* C18: whatever the arguments of the mmap and munmap calls made so far, no
\* assertion of the page table has failed: map was given only pages that
\* were not valid and unmap only pages that were valid.
C18_AssertsUnreached == panic_msg \notin PageTableAsserts

\* C18, reached: an munmap of page 512, mapped under a table of its own by
\* an earlier call and not by the call just before, unmapped it and
\* returned 0
C18_Witness ==
    /\ pc = "user"
    /\ last.op = "munmap"
    /\ last.ret = 0
    /\ LastStart = 512 * PAGE_SIZE
    /\ last.prev = None
    /\ panic_msg = NoPanic

\* an entry of the root table or of the second-level table on the way to
\* vpn is not valid
IntermediateMissing(vpn) ==
    \/ ~is_valid(ReadPte(mem, << page_table[current_task].root_ppn, indexes(vpn)[1] >>))
    \/ ~is_valid(ReadPte(mem,
          << ppn_of(ReadPte(mem, << page_table[current_task].root_ppn, indexes(vpn)[1] >>)),
             indexes(vpn)[2] >>))

\* the frames of the page table of the current task, and the frames handed out
TableFrames == << page_table[current_task].frames, allocator >>

\* C19: translate(vpn) leaves memory, the frame allocator and the frames of
\* the page table as they were; it gives not found exactly when an
\* intermediate entry on the way to vpn is not valid; and a step that
\* allocates a frame is a map or an unmap.
C19_TranslateReadsOnly ==
    [][ /\ last'.op = "translate" =>
              /\ << mem, allocator, page_table, data_frames, pc >>' =
                    << mem, allocator, page_table, data_frames, pc >>
              /\ last'.ret = None <=> IntermediateMissing(last'.args[1])
              /\ last'.ret # None => last'.ret = Translate(last'.args[1])
        /\ TableFrames' # TableFrames => last'.op \in { "map", "unmap" } ]_vars

\* C19, reached: translate of page 513 gave not found, and the page table
\* still has its root, the two tables of the image and nothing else
C19_Witness ==
    /\ last.op = "translate"
    /\ last.args = << 513 >>
    /\ last.ret = None
    /\ Len(page_table[current_task].frames) = 3
    /\ Translate(513) = None

\* a task that was Ready after the i-th operation of the trace was dispatched
\* by one of the next num_app - 1 operations
BoundedWait ==
    \A i \in 1 .. Len(trace) : \A t \in Tasks :
        (/\ task_status[t] # "Exited"
         /\ trace[i].task # t
         /\ Len(trace) - i >= num_app - 1)
        => \E j \in (i + 1) .. (i + num_app - 1) : trace[j].task = t

\* every task has exited; the kernel has halted for want of a task
AllExited == \A t \in Tasks : task_status[t] = "Exited"
Halted == pc = "panic" /\ panic_msg = "All applications completed!"

\* t is a task and its status is st
StatusIs(t, st) == t < num_app /\ task_status[t] = st

\* C20: while reschedules keep coming, a task that is Ready is Running after
\* at most num_app - 1 further reschedules, so every Ready task is dispatched
\* in the end; and once every task has exited the kernel has halted with
\* "All applications completed!".
C20_NoStarvation ==
    /\ []BoundedWait
    /\ \A t \in 0 .. (MaxApp - 1) :
          StatusIs(t, "Ready") ~> StatusIs(t, "Running")
    /\ AllExited ~> Halted

\* C20, reached: long after the start, none of three tasks has exited and
\* task 2 runs again after tasks 0 and 1, two reschedules after it suspended
C20_Witness ==
    /\ num_app = 3
    /\ pc = "user"
    /\ Len(trace) = MaxTrace
    /\ trace[1].op # "run_first_task"
    /\ \A t \in Tasks : task_status[t] # "Exited"
    /\ trace[MaxTrace - 3].task = 2
    /\ trace[MaxTrace - 2].task = 0
    /\ trace[MaxTrace - 1].task = 1
    /\ trace[MaxTrace].task = 2

=============================================================================
